---- MODULE Spec2Model ----
(***************************************************************************)
(* Tic-tac-toe: Part A (two humans), Part B (human against the minimax     *)
(* engine) and Part C (human against the dataset engine).                  *)
(*                                                                         *)
(* The board is Board.c, a 3x3 grid indexed c[row][col] with row, col in   *)
(* 0..2 and cells " ", "X", "O".  Python's None is the string "None"; a    *)
(* move that is None is the empty tuple.  The engines mutate the board in  *)
(* place and undo, so every engine operator takes the board and returns it *)
(* together with its result: the board is threaded through the loops in    *)
(* the order the statements run.                                           *)
(***************************************************************************)
EXTENDS Integers, Sequences, FiniteSets, TLC

VARIABLES
    part,       \* which program runs: "A", "B" or "C"
    c,          \* Board.c
    turn,       \* Game.turn
    human,      \* Game.human     ("None" in Part A, which has no such field)
    computer,   \* Game.computer  ("None" in Part A)
    pc,         \* position in playGame, or the operation an engine run called
    last,       \* what became of the last human entry
    msg,        \* what checkEnd printed last
    c_in,       \* the board at the entry of the last engine call
    ret,        \* what the last engine call returned
    scores,     \* the values of getBestMove's local `score`, one per iteration
    free,       \* self-play: plies still played freely before the engines take over
    dataset,    \* MLPlayer.dataset: a sequence of [state, label] records
    dataset_type, \* MLPlayer.dataset_type: "single" or "final"
    via,        \* which branch of getMLMove produced the last move
    dataset_file, \* the file name given to MLPlayer
    file        \* the file of that name: whether it exists, and its lines

vars == <<part, c, turn, human, computer, pc, last, msg, c_in, ret, scores, free,
          dataset, dataset_type, via, dataset_file, file>>

----------------------------------------------------------------------------
(* Bounds *)

MaxInput == 3       \* human entries range over -1..MaxInput
MaxEmpty == 4       \* engine runs start from boards with at most MaxEmpty empty cells
MaxDepth == 1       \* engine runs call minimax with depth in 0..MaxDepth
MaxFree == 1        \* self-play runs start with at most MaxFree free plies
MaxMarks == 2       \* dataset-engine runs start from boards with at most MaxMarks marks
MaxRecords == 2     \* datasets hold at most MaxRecords records

----------------------------------------------------------------------------
(* Values *)

Idx == 0..2
EMPTY == " "
None == "None"
NoMove == <<>>
Marks == {"X", "O"}
Cells == {EMPTY, "X", "O"}
NegInf == -1000
PosInf == 1000

NewBoard == [i \in Idx |-> [j \in Idx |-> EMPTY]]

SetCell(b, row, col, v) == [b EXCEPT ![row][col] = v]

NumEmpty(b) == Cardinality({m \in Idx \X Idx : b[m[1]][m[2]] = EMPTY})
NumOf(b, v) == Cardinality({m \in Idx \X Idx : b[m[1]][m[2]] = v})

(* A switch that leaves the turn where it is. *)
switchPlayerStuck(t) == t

switchPlayer(t) == IF t = "X" THEN "O" ELSE "X"

(* The range test alone, without the test that the cell is empty. *)
validateEntryRangeOnly(b, row, col) ==
    IF row < 0 \/ row > 2 \/ col < 0 \/ col > 2 THEN FALSE
    ELSE TRUE

validateEntry(b, row, col) ==
    IF row < 0 \/ row > 2 \/ col < 0 \/ col > 2 THEN FALSE
    ELSE IF b[row][col] # EMPTY THEN FALSE
    ELSE TRUE

checkFull(b) == \A i \in Idx : \A j \in Idx : b[i][j] # EMPTY

Line3(b, r1, c1, r2, c2, r3, c3) ==
    b[r1][c1] = b[r2][c2] /\ b[r2][c2] = b[r3][c3] /\ b[r1][c1] # EMPTY

checkWin(b) ==
    IF \E i \in Idx : Line3(b, i,0, i,1, i,2) THEN TRUE
    ELSE IF \E j \in Idx : Line3(b, 0,j, 1,j, 2,j) THEN TRUE
    ELSE IF Line3(b, 0,0, 1,1, 2,2) THEN TRUE
    ELSE IF Line3(b, 0,2, 1,1, 2,0) THEN TRUE
    ELSE FALSE

(* The lines of getWinner with the rows taken from row 2 up to row 0. *)
getWinnerRowsReversed(b) ==
    IF Line3(b, 2,0, 2,1, 2,2) THEN b[2][0]
    ELSE IF Line3(b, 1,0, 1,1, 1,2) THEN b[1][0]
    ELSE IF Line3(b, 0,0, 0,1, 0,2) THEN b[0][0]
    ELSE IF Line3(b, 0,0, 1,0, 2,0) THEN b[0][0]
    ELSE IF Line3(b, 0,1, 1,1, 2,1) THEN b[0][1]
    ELSE IF Line3(b, 0,2, 1,2, 2,2) THEN b[0][2]
    ELSE IF Line3(b, 0,0, 1,1, 2,2) THEN b[0][0]
    ELSE IF Line3(b, 0,2, 1,1, 2,0) THEN b[0][2]
    ELSE None

(* getWinner: rows 0..2, columns 0..2, main diagonal, anti-diagonal. *)
getWinner(b) ==
    IF b[0][0] # EMPTY /\ b[0][0] = b[0][1] /\ b[0][1] = b[0][2] THEN b[0][0]
    ELSE IF b[1][0] # EMPTY /\ b[1][0] = b[1][1] /\ b[1][1] = b[1][2] THEN b[1][0]
    ELSE IF b[2][0] # EMPTY /\ b[2][0] = b[2][1] /\ b[2][1] = b[2][2] THEN b[2][0]
    ELSE IF b[0][0] # EMPTY /\ b[0][0] = b[1][0] /\ b[1][0] = b[2][0] THEN b[0][0]
    ELSE IF b[0][1] # EMPTY /\ b[0][1] = b[1][1] /\ b[1][1] = b[2][1] THEN b[0][1]
    ELSE IF b[0][2] # EMPTY /\ b[0][2] = b[1][2] /\ b[1][2] = b[2][2] THEN b[0][2]
    ELSE IF b[0][0] # EMPTY /\ b[0][0] = b[1][1] /\ b[1][1] = b[2][2] THEN b[0][0]
    ELSE IF b[0][2] # EMPTY /\ b[0][2] = b[1][1] /\ b[1][1] = b[2][0] THEN b[0][2]
    ELSE None

(* The two tests of checkEnd in the other order. *)
checkEndDrawFirst(b, t) ==
    IF checkFull(b) THEN [end |-> TRUE, msg |-> "DRAW! NOBODY WINS!"]
    ELSE IF checkWin(b) THEN [end |-> TRUE, msg |-> "Player " \o t \o " wins!"]
    ELSE [end |-> FALSE, msg |-> ""]

(* The draw test alone, without the test for a winner. *)
checkEndFullOnly(b, t) ==
    IF checkFull(b) THEN [end |-> TRUE, msg |-> "DRAW! NOBODY WINS!"]
    ELSE [end |-> FALSE, msg |-> ""]

(* The win test alone, without the test for a full board. *)
checkEndWinOnly(b, t) ==
    IF checkWin(b) THEN [end |-> TRUE, msg |-> "Player " \o t \o " wins!"]
    ELSE [end |-> FALSE, msg |-> ""]

(* The winner named after the switch of players instead of before it. *)
checkEndAfterSwitch(b, t) ==
    IF checkWin(b) THEN [end |-> TRUE, msg |-> "Player " \o switchPlayer(t) \o " wins!"]
    ELSE IF checkFull(b) THEN [end |-> TRUE, msg |-> "DRAW! NOBODY WINS!"]
    ELSE [end |-> FALSE, msg |-> ""]

(* checkEnd: what it returns and what it prints, given the current turn. *)
checkEnd(b, t) ==
    IF checkWin(b) THEN [end |-> TRUE, msg |-> "Player " \o t \o " wins!"]
    ELSE IF checkFull(b) THEN [end |-> TRUE, msg |-> "DRAW! NOBODY WINS!"]
    ELSE [end |-> FALSE, msg |-> ""]

AllCells ==
    << <<0, 0>>, <<0, 1>>, <<0, 2>>,
       <<1, 0>>, <<1, 1>>, <<1, 2>>,
       <<2, 0>>, <<2, 1>>, <<2, 2>> >>

IsEmptyAt(b, m) == b[m[1]][m[2]] = EMPTY

(* Part B's getAvailableMoves: the empty cells as (row, col), row-major. *)
getAvailableMoves(b) == SelectSeq(AllCells, LAMBDA m : IsEmptyAt(b, m))

----------------------------------------------------------------------------
(* The minimax engine (Part B) *)

(* A win scored without the depth. *)
WinScoreNoDepth(depth) == 10

(* A loss scored without the depth. *)
LossScoreNoDepth(depth) == 0 - 10

(* The terminal scores of minimax. *)
WinScore(depth) == 10 - depth
LossScore(depth) == depth - 10

(* A loop body that leaves the mark it tried on the board. *)
UndoMoveForgotten(b, row, col) == b

(* "Undo the move": self.board.c[row][col] = " " after the recursive call. *)
UndoMove(b, row, col) == SetCell(b, row, col, EMPTY)

RECURSIVE minimax(_, _, _, _, _)
RECURSIVE MaxLoop(_, _, _, _, _, _, _)
RECURSIVE MinLoop(_, _, _, _, _, _, _)

(* The maximizing loop of minimax from its i-th iteration on; moves is the
   list getAvailableMoves() returned when the loop started. *)
MaxLoop(b, h, cm, moves, i, depth, max_score) ==
    IF i > Len(moves) THEN [score |-> max_score, c |-> b]
    ELSE LET r == minimax(SetCell(b, moves[i][1], moves[i][2], cm), h, cm, depth + 1, FALSE)
         IN IF r.score > max_score
            THEN MaxLoop(UndoMove(r.c, moves[i][1], moves[i][2]), h, cm, moves, i + 1,
                         depth, r.score)
            ELSE MaxLoop(UndoMove(r.c, moves[i][1], moves[i][2]), h, cm, moves, i + 1,
                         depth, max_score)

(* The minimizing loop of minimax. *)
MinLoop(b, h, cm, moves, i, depth, min_score) ==
    IF i > Len(moves) THEN [score |-> min_score, c |-> b]
    ELSE LET r == minimax(SetCell(b, moves[i][1], moves[i][2], h), h, cm, depth + 1, TRUE)
         IN IF r.score < min_score
            THEN MinLoop(UndoMove(r.c, moves[i][1], moves[i][2]), h, cm, moves, i + 1,
                         depth, r.score)
            ELSE MinLoop(UndoMove(r.c, moves[i][1], moves[i][2]), h, cm, moves, i + 1,
                         depth, min_score)

(* minimax(depth, is_maximizing) on board b with self.human = h and
   self.computer = cm: the score it returns and the board it leaves. *)
minimax(b, h, cm, depth, is_maximizing) ==
    LET winner == getWinner(b) IN
    IF winner = cm THEN [score |-> WinScore(depth), c |-> b]
    ELSE IF winner = h THEN [score |-> LossScore(depth), c |-> b]
    ELSE IF checkFull(b) THEN [score |-> 0, c |-> b]
    ELSE IF is_maximizing
         THEN MaxLoop(b, h, cm, getAvailableMoves(b), 1, depth, NegInf)
         ELSE MinLoop(b, h, cm, getAvailableMoves(b), 1, depth, PosInf)

(* Other comparisons the loop of getBestMove could make. *)
Worse(score, best_score) == score < best_score
BetterOrEqual(score, best_score) == score >= best_score

(* "if score > best_score" of getBestMove. *)
Better(score, best_score) == score > best_score

RECURSIVE BestLoop(_, _, _, _, _, _, _, _)

(* The loop of getBestMove from its i-th iteration on; seen collects the
   values the local `score` took. *)
BestLoop(b, h, cm, moves, i, best_score, best_move, seen) ==
    IF i > Len(moves) THEN [move |-> best_move, c |-> b, scores |-> seen]
    ELSE LET r == minimax(SetCell(b, moves[i][1], moves[i][2], cm), h, cm, 0, FALSE)
         IN IF Better(r.score, best_score)
            THEN BestLoop(UndoMove(r.c, moves[i][1], moves[i][2]), h, cm, moves, i + 1,
                          r.score, moves[i], Append(seen, r.score))
            ELSE BestLoop(UndoMove(r.c, moves[i][1], moves[i][2]), h, cm, moves, i + 1,
                          best_score, best_move, Append(seen, r.score))

(* A move source that takes the first empty cell instead of searching. *)
getFirstMove(b, h, cm) ==
    [move |-> IF getAvailableMoves(b) = <<>> THEN NoMove ELSE getAvailableMoves(b)[1],
     c |-> b, scores |-> <<>>]

(* getBestMove() on board b: the move it returns, the board it leaves and
   the scores its loop saw. *)
getBestMove(b, h, cm) ==
    BestLoop(b, h, cm, getAvailableMoves(b), 1, NegInf, NoMove, <<>>)

----------------------------------------------------------------------------
(* The dataset engine (Part C).  A state vector is a sequence of 9 integers,
   position i of the code (0..8) being element i + 1 here.  Python's None as
   a move index is the empty sequence, an index i is <<i>>. *)

K == 5

(* The cells read column by column instead of row by row. *)
getBoardStateColumnMajor(b) ==
    [k \in 1..9 |->
        IF b[(k - 1) % 3][(k - 1) \div 3] = "X" THEN 1
        ELSE IF b[(k - 1) % 3][(k - 1) \div 3] = "O" THEN 0 - 1
        ELSE 0]

(* Board.getBoardState: row-major, X -> 1, O -> -1, empty -> 0. *)
getBoardState(b) ==
    [k \in 1..9 |->
        IF b[(k - 1) \div 3][(k - 1) % 3] = "X" THEN 1
        ELSE IF b[(k - 1) \div 3][(k - 1) % 3] = "O" THEN 0 - 1
        ELSE 0]

(* Board.indexToRowCol *)
indexToRowCol(index) == <<index \div 3, index % 3>>

AllIndices == <<0, 1, 2, 3, 4, 5, 6, 7, 8>>

(* Part C's getAvailableMoves: the empty cells as indices i*3+j, row-major. *)
getAvailableIndices(b) ==
    SelectSeq(AllIndices, LAMBDA k : b[k \div 3][k % 3] = EMPTY)

SeqToSet(s) == {s[i] : i \in 1..Len(s)}

(* similarity = sum(1 for i in range(9) if current_state[i] == board_state[i]) *)
Similarity(current_state, board_state) ==
    Cardinality({i \in 1..9 : current_state[i] = board_state[i]})

RECURSIVE SortBySimilarity(_, _, _)
(* similarities.sort(reverse=True, key=similarity): a stable sort, so the
   records of each similarity keep their dataset order; s runs from 9 to 0. *)
SortBySimilarity(ds, current_state, s) ==
    IF s < 0 THEN <<>>
    ELSE SelectSeq(ds, LAMBDA rec : Similarity(current_state, rec.state) = s)
         \o SortBySimilarity(ds, current_state, s - 1)

(* The positions where the record is not 0, whatever the query holds. *)
DiffMovesAnyCell(current_state, board) ==
    SelectSeq(AllIndices, LAMBDA i : board[i + 1] # 0)

(* The positions where the query is 0 and the record is not, ascending. *)
DiffMoves(current_state, board) ==
    SelectSeq(AllIndices, LAMBDA i : current_state[i + 1] = 0 /\ board[i + 1] # 0)

RECURSIVE CollectMoves(_, _, _)
CollectMoves(top_k, current_state, n) ==
    IF n > Len(top_k) THEN <<>>
    ELSE DiffMoves(current_state, top_k[n].state) \o CollectMoves(top_k, current_state, n + 1)

(* A collection that takes every record instead of the first k. *)
findAllBoardMoves(ds, current_state, k) ==
    CollectMoves(SortBySimilarity(ds, current_state, 9), current_state, 1)

(* MLPlayer.findSimilarBoardMoves(current_state, k) *)
findSimilarBoardMoves(ds, current_state, k) ==
    LET sorted == SortBySimilarity(ds, current_state, 9)
        top_k == SubSeq(sorted, 1, IF Len(sorted) < k THEN Len(sorted) ELSE k)
    IN CollectMoves(top_k, current_state, 1)

Count(s, x) == Cardinality({i \in 1..Len(s) : s[i] = x})

(* The elements of similar_moves of maximal count. *)
MaxCount(similar_moves) ==
    {x \in SeqToSet(similar_moves) :
        \A y \in SeqToSet(similar_moves) : Count(similar_moves, y) <= Count(similar_moves, x)}

(* A choice that takes the first element of the list whatever its count. *)
FirstCandidate(similar_moves) == {similar_moves[1]}

(* max(set(similar_moves), key=similar_moves.count): the first element of
   maximal count in the iteration order of the set.  An int hashes to
   itself and a set's table has at least 8 slots, so the elements 0..7
   iterate in ascending order; 8 shares slot 0 with 0 in a table of 8 slots
   and its place depends on the table size and the insertion order, so it
   can come before or after the others.  The result is the set of values
   max can return. *)
MostCommon(similar_moves) ==
    {x \in MaxCount(similar_moves) \ {8} :
        \A y \in MaxCount(similar_moves) \ {8} : x <= y}
    \cup (MaxCount(similar_moves) \cap {8})

RECURSIVE LastMatch(_, _, _)
(* A scan that keeps the last matching record instead of the first. *)
LastMatch(ds, current_state, n) ==
    IF n > Len(ds) THEN <<>>
    ELSE LET rest == LastMatch(ds, current_state, n + 1)
         IN IF rest # <<>> THEN rest
            ELSE IF ds[n].state = current_state THEN <<ds[n].label>>
            ELSE <<>>

RECURSIVE FirstMatch(_, _, _)
(* for board_state, best_move in self.dataset: if board_state == current_state *)
FirstMatch(ds, current_state, n) ==
    IF n > Len(ds) THEN <<>>
    ELSE IF ds[n].state = current_state THEN <<ds[n].label>>
    ELSE FirstMatch(ds, current_state, n + 1)

(* MLPlayer.findBestMove: the set of values it can return. *)
findBestMove(ds, ty, current_state) ==
    IF ds = <<>> THEN {<<>>}
    ELSE IF ty = "single" THEN {FirstMatch(ds, current_state, 1)}
    ELSE IF ty = "final"
         THEN LET similar_moves == findSimilarBoardMoves(ds, current_state, K)
              IN IF similar_moves # <<>>
                 THEN {<<x>> : x \in MostCommon(similar_moves)}
                 ELSE {<<>>}
    ELSE {<<>>}

(* A lookup result used without the membership test. *)
AnyIndexAccepted(best_move_index, available_moves) == TRUE

(* "if best_move_index in available_moves" of getMLMove. *)
IndexAccepted(best_move_index, available_moves) ==
    best_move_index \in SeqToSet(available_moves)

(* Game.getMLMove: every outcome it can have: the move, the branch that
   produced it and the board it leaves.  random.choice of an empty list
   raises IndexError. *)
getMLMove(b, ds, ty) ==
    LET found == findBestMove(ds, ty, getBoardState(b))
        available_moves == getAvailableIndices(b)
        used == {f \in found : f # <<>> /\ IndexAccepted(f[1], available_moves)}
    IN {[move |-> indexToRowCol(f[1]), via |-> "ML", c |-> b] : f \in used}
       \cup (IF found \subseteq used THEN {}
             ELSE IF available_moves = <<>>
                  THEN {[move |-> NoMove, via |-> "IndexError", c |-> b]}
                  ELSE {[move |-> indexToRowCol(m), via |-> "random", c |-> b] :
                            m \in SeqToSet(available_moves)})

----------------------------------------------------------------------------
(* playGame (Parts A and B) *)

Inputs == (0 - 1)..MaxInput

engineVars == <<c_in, ret, scores, via>>
mlVars == <<dataset, dataset_type, dataset_file, file>>

(* No dataset file is read in this run. *)
NoFile == dataset_file = <<>> /\ file = [exists |-> FALSE, lines |-> <<>>]

Init ==
    /\ part \in {"A", "B"}
    /\ c = NewBoard
    /\ turn = "X"
    /\ human \in (IF part = "A" THEN {None} ELSE Marks)
    /\ computer = (IF part = "A" THEN None ELSE IF human = "X" THEN "O" ELSE "X")
    /\ pc = "turn"
    /\ last = "none"
    /\ msg = ""
    /\ c_in = NewBoard
    /\ ret = NoMove
    /\ scores = <<>>
    /\ free = 0
    /\ dataset = <<>>
    /\ dataset_type = "single"
    /\ NoFile
    /\ via = "none"

HumanToMove == part = "A" \/ turn = human

(* The human types a row and a column; validateEntry accepts them and the
   mark is placed. *)
HumanEntry ==
    /\ pc = "turn" /\ HumanToMove
    /\ \E row \in Inputs, col \in Inputs :
        /\ validateEntry(c, row, col)
        /\ c' = SetCell(c, row, col, turn)
    /\ last' = "placed"
    /\ pc' = "check"
    /\ UNCHANGED <<part, turn, human, computer, msg, free, engineVars, mlVars>>

(* The human types a row and a column that validateEntry refuses: the
   inner loop asks again. *)
HumanRejected ==
    /\ pc = "turn" /\ HumanToMove
    /\ \E row \in Inputs, col \in Inputs : ~validateEntry(c, row, col)
    /\ last' = "rejected"
    /\ UNCHANGED <<part, c, turn, human, computer, pc, msg, free, engineVars, mlVars>>

(* The human types something int() refuses (ValueError): asked again. *)
HumanBadInput ==
    /\ pc = "turn" /\ HumanToMove
    /\ last' = "ValueError"
    /\ UNCHANGED <<part, c, turn, human, computer, pc, msg, free, engineVars, mlVars>>

(* Part B: row, col = self.getBestMove(); self.board.c[row][col] = self.turn.
   Unpacking None raises TypeError, which ends playGame. *)
ComputerMove ==
    /\ pc = "turn" /\ part = "B" /\ turn # human
    /\ \E r \in {getBestMove(c, human, computer)} :
          /\ ret' = r.move
          /\ IF r.move = NoMove
             THEN c' = r.c /\ pc' = "TypeError"
             ELSE c' = SetCell(r.c, r.move[1], r.move[2], turn) /\ pc' = "check"
    /\ c_in' = c
    /\ UNCHANGED <<part, turn, human, computer, last, msg, scores, free, via, mlVars>>

(* if self.checkEnd(): break; else self.switchPlayer() *)
CheckEndStep ==
    /\ pc = "check"
    /\ \E e \in {checkEnd(c, turn)} :
          /\ msg' = e.msg
          /\ IF e.end
             THEN pc' = "done" /\ turn' = turn
             ELSE pc' = "turn" /\ turn' = switchPlayer(turn)
    /\ UNCHANGED <<part, c, human, computer, last, free, engineVars, mlVars>>

Next ==
    \/ HumanEntry
    \/ HumanRejected
    \/ HumanBadInput
    \/ ComputerMove
    \/ CheckEndStep

Spec == Init /\ [][Next]_vars

----------------------------------------------------------------------------
(* Runs of the terminal evaluator: getWinner, checkWin, checkFull and
   checkEnd called once on an arbitrary board. *)

AllBoards == [Idx -> [Idx -> Cells]]

EvalInit ==
    /\ part = "B"
    /\ c \in AllBoards
    /\ turn \in Marks
    /\ human = "X" /\ computer = "O"
    /\ pc = "call"
    /\ last = "none" /\ msg = ""
    /\ c_in = c /\ ret = NoMove /\ scores = <<>> /\ via = "none"
    /\ free = 0
    /\ dataset = <<>> /\ dataset_type = "single"
    /\ NoFile

CallGetWinner ==
    /\ pc = "call"
    /\ ret' = getWinner(c)
    /\ pc' = "getWinner"
    /\ UNCHANGED <<part, c, turn, human, computer, last, msg, c_in, scores, via, free, mlVars>>

CallCheckWin ==
    /\ pc = "call"
    /\ ret' = checkWin(c)
    /\ pc' = "checkWin"
    /\ UNCHANGED <<part, c, turn, human, computer, last, msg, c_in, scores, via, free, mlVars>>

CallCheckFull ==
    /\ pc = "call"
    /\ ret' = checkFull(c)
    /\ pc' = "checkFull"
    /\ UNCHANGED <<part, c, turn, human, computer, last, msg, c_in, scores, via, free, mlVars>>

CallCheckEnd ==
    /\ pc = "call"
    /\ \E e \in {checkEnd(c, turn)} : ret' = e.end /\ msg' = e.msg
    /\ pc' = "checkEnd"
    /\ UNCHANGED <<part, c, turn, human, computer, last, c_in, scores, via, free, mlVars>>

EvalNext == CallGetWinner \/ CallCheckWin \/ CallCheckFull \/ CallCheckEnd

SpecEval == EvalInit /\ [][EvalNext]_vars

----------------------------------------------------------------------------
(* Runs of the engines: getBestMove or minimax (Part B) or getMLMove
   (Part C) called once on a board drawn from a bounded set. *)

EngineBoards == {b \in AllBoards : NumEmpty(b) <= MaxEmpty}
MLBoards == {b \in AllBoards : NumEmpty(b) >= 9 - MaxMarks}

(* The records datasets are built from: the state of the board with X at 0
   and O at 1, labelled with an occupied cell (0), an empty cell (4) or a
   number that is no cell (9), and a final board (X owns row 0). *)
OpeningState == <<1, 0 - 1, 0, 0, 0, 0, 0, 0, 0>>
FinalState == <<1, 1, 1, 0 - 1, 0 - 1, 0, 0, 0, 0>>
SampleRecords ==
    { [state |-> OpeningState, label |-> 0],
      [state |-> OpeningState, label |-> 4],
      [state |-> OpeningState, label |-> 9],
      [state |-> FinalState, label |-> 1] }
Datasets == UNION {[1..n -> SampleRecords] : n \in 0..MaxRecords}

EngineInit ==
    /\ pc = "call"
    /\ turn = "X"
    /\ last = "none" /\ msg = ""
    /\ ret = NoMove /\ scores = <<>> /\ via = "none"
    /\ free = 0
    /\ \/ /\ part = "B"
          /\ c \in EngineBoards
          /\ human \in Marks
          /\ dataset = <<>> /\ dataset_type = "single"
       \/ /\ part = "C"
          /\ c \in MLBoards
          /\ human = "X"
          /\ dataset \in Datasets
          /\ dataset_type \in {"single", "final"}
    /\ computer = switchPlayer(human)
    /\ c_in = c
    /\ NoFile

CallGetBestMove ==
    /\ pc = "call" /\ part = "B"
    /\ \E r \in {getBestMove(c, human, computer)} :
          c' = r.c /\ ret' = r.move /\ scores' = r.scores
    /\ pc' = "getBestMove"
    /\ UNCHANGED <<part, turn, human, computer, last, msg, c_in, via, free, mlVars>>

CallMinimax ==
    /\ pc = "call" /\ part = "B"
    /\ \E depth \in 0..MaxDepth, is_maximizing \in BOOLEAN :
         \E r \in {minimax(c, human, computer, depth, is_maximizing)} :
            c' = r.c /\ ret' = <<depth, is_maximizing, r.score>>
    /\ pc' = "minimax"
    /\ UNCHANGED <<part, turn, human, computer, last, msg, c_in, scores, via, free, mlVars>>

CallGetMLMove ==
    /\ pc = "call" /\ part = "C"
    /\ \E o \in getMLMove(c, dataset, dataset_type) :
          /\ c' = o.c /\ ret' = o.move /\ via' = o.via
          /\ pc' = IF o.via = "IndexError" THEN "IndexError" ELSE "getMLMove"
    /\ UNCHANGED <<part, turn, human, computer, last, msg, c_in, scores, free, mlVars>>

EngineNext == CallGetBestMove \/ CallMinimax \/ CallGetMLMove

SpecEngine == EngineInit /\ [][EngineNext]_vars

(* Runs of minimax alone: minimax(depth, is_maximizing) called once on a
   board of Part B. *)
MaxSearch == 3   \* minimax runs start from boards with at most MaxSearch empty cells

MinimaxInit ==
    /\ part = "B"
    /\ c \in {b \in AllBoards : NumEmpty(b) <= MaxSearch}
    /\ turn = "X"
    /\ human \in Marks
    /\ computer = switchPlayer(human)
    /\ pc = "call"
    /\ last = "none" /\ msg = ""
    /\ c_in = c /\ ret = NoMove /\ scores = <<>> /\ via = "none"
    /\ free = 0
    /\ dataset = <<>> /\ dataset_type = "single"
    /\ NoFile

SpecMinimax == MinimaxInit /\ [][CallMinimax]_vars

----------------------------------------------------------------------------
(* Runs of the dataset lookup: findBestMove or findSimilarBoardMoves called
   once with the state of a board as the query. *)

MaxLookupRecords == 6   \* lookup runs use datasets of at most MaxLookupRecords records

OpeningBoard == SetCell(SetCell(NewBoard, 0, 0, "X"), 0, 1, "O")

(* The queries: the boards with at most one mark, and X at 0 with O at 1. *)
LookupBoards == {b \in AllBoards : NumEmpty(b) >= 8} \cup {OpeningBoard}

(* The records lookup datasets are built from: two records of the state
   with X at 0 and O at 1, with different labels, and one of the state with
   X at 5. *)
LookupRecords ==
    { [state |-> OpeningState, label |-> 4],
      [state |-> OpeningState, label |-> 2],
      [state |-> <<0, 0, 0, 0, 0, 1, 0, 0, 0>>, label |-> 1] }

LookupDatasets == UNION {[1..n -> LookupRecords] : n \in 0..MaxLookupRecords}

LookupInit ==
    /\ part = "C"
    /\ c \in LookupBoards
    /\ turn = "X"
    /\ human = "X" /\ computer = "O"
    /\ pc = "call"
    /\ last = "none" /\ msg = ""
    /\ c_in = c /\ ret = NoMove /\ scores = <<>> /\ via = "none"
    /\ free = 0
    /\ dataset \in LookupDatasets
    /\ dataset_type \in {"single", "final"}
    /\ NoFile

CallFindBestMove ==
    /\ pc = "call" /\ part = "C"
    /\ \E f \in findBestMove(dataset, dataset_type, getBoardState(c)) : ret' = f
    /\ pc' = "findBestMove"
    /\ UNCHANGED <<part, c, turn, human, computer, last, msg, c_in, scores, via, free, mlVars>>

CallFindSimilarBoardMoves ==
    /\ pc = "call" /\ part = "C"
    /\ ret' = findSimilarBoardMoves(dataset, getBoardState(c), K)
    /\ pc' = "findSimilarBoardMoves"
    /\ UNCHANGED <<part, c, turn, human, computer, last, msg, c_in, scores, via, free, mlVars>>

LookupNext == CallFindBestMove \/ CallFindSimilarBoardMoves

SpecLookup == LookupInit /\ [][LookupNext]_vars

----------------------------------------------------------------------------
(* MLPlayer.__init__ and loadDataset: the dataset file is read line by line.
   A file name is the sequence of its characters; a line is the sequence of
   the tokens line.strip().split() yields, so a blank line is <<>>. *)

MaxLines == 3   \* dataset files have at most MaxLines lines

(* int(x) of a token: the integer, or the ValueError it raises. *)
IsInteger(tok) == tok \in {"0", "1", "-1", "2", "4"}
ToInt(tok) ==
    CASE tok = "0" -> 0
      [] tok = "1" -> 1
      [] tok = "-1" -> 0 - 1
      [] tok = "2" -> 2
      [] tok = "4" -> 4

(* str.lower() of one character, for the characters file names are made of. *)
LowerChar(ch) ==
    CASE ch = "F" -> "f"
      [] ch = "S" -> "s"
      [] ch = "I" -> "i"
      [] OTHER -> ch
Lower(name) == [i \in 1..Len(name) |-> LowerChar(name[i])]

(* "sub in name" of two strings. *)
Contains(name, sub) ==
    \E i \in 0..(Len(name) - Len(sub)) :
        \A j \in 1..Len(sub) : name[i + j] = sub[j]

RECURSIVE LoadLines(_, _, _)
(* for line in f: skip a blank line; values = [int(x) for x in line.split()]
   raises ValueError at a non-integer token, whatever the number of tokens;
   a line of 10 integers is appended as (values[:9], values[9]). *)
LoadLines(lines, n, acc) ==
    IF n > Len(lines) THEN [dataset |-> acc, error |-> "none"]
    ELSE IF lines[n] = <<>> THEN LoadLines(lines, n + 1, acc)
    ELSE IF \E i \in 1..Len(lines[n]) : ~IsInteger(lines[n][i])
         THEN [dataset |-> acc, error |-> "ValueError"]
    ELSE LET values == [i \in 1..Len(lines[n]) |-> ToInt(lines[n][i])]
         IN IF Len(values) = 10
            THEN LoadLines(lines, n + 1,
                     Append(acc, [state |-> SubSeq(values, 1, 9),
                                  label |-> values[10]]))
            ELSE LoadLines(lines, n + 1, acc)

(* MLPlayer.loadDataset on self.dataset = []: the records appended, the type
   returned and the exception that escapes.  Only FileNotFoundError is
   caught. *)
loadDataset(f, filename) ==
    IF ~f.exists
    THEN [dataset |-> <<>>, type |-> "single", error |-> "none"]
    ELSE LET read == LoadLines(f.lines, 1, <<>>)
         IN IF read.error # "none"
            THEN [dataset |-> read.dataset, type |-> "unset", error |-> read.error]
            ELSE [dataset |-> read.dataset,
                  type |-> IF Contains(Lower(filename), <<"s", "i", "n", "g", "l", "e">>)
                           THEN "single"
                           ELSE IF Contains(Lower(filename), <<"f", "i", "n", "a", "l">>)
                           THEN "final"
                           ELSE "single",
                  error |-> "none"]

(* The file names of the runs: the two names main() offers, a name with
   capitals and both words, and a name with neither word. *)
FileNames ==
    { <<"s", "i", "n", "g", "l", "e">>,
      <<"f", "i", "n", "a", "l">>,
      <<"F", "i", "n", "a", "l", "_", "S", "I", "n", "g", "l", "e">>,
      <<"F", "I", "n", "a", "l">>,
      <<"m", "o", "v", "e", "s">> }

(* The lines files are made of: two records, a line of 9 integers, a line of
   11 integers, a blank line, a record whose last token is not an integer
   and a lone non-integer token. *)
SampleLines ==
    { <<"1", "-1", "0", "0", "0", "0", "0", "0", "0", "4">>,
      <<"0", "0", "0", "0", "0", "1", "0", "0", "0", "2">>,
      <<"1", "-1", "0", "0", "0", "0", "0", "0", "0">>,
      <<"1", "-1", "0", "0", "0", "0", "0", "0", "0", "4", "4">>,
      <<>>,
      <<"1", "-1", "0", "0", "0", "0", "0", "0", "0", "x">>,
      <<"x">> }

Files ==
    {[exists |-> FALSE, lines |-> <<>>]}
    \cup {[exists |-> TRUE, lines |-> l] :
             l \in UNION {[1..n -> SampleLines] : n \in 0..MaxLines}}

LoadInit ==
    /\ part = "C"
    /\ pc = "load"
    /\ c \in {NewBoard, OpeningBoard}   \* the board the player is later asked about
    /\ turn = "X"
    /\ human = "X" /\ computer = "O"
    /\ last = "none" /\ msg = ""
    /\ c_in = c /\ ret = NoMove /\ scores = <<>> /\ via = "none"
    /\ free = 0
    /\ dataset = <<>>
    /\ dataset_type = "unset"
    /\ dataset_file \in FileNames
    /\ file \in Files

(* MLPlayer(dataset_file): self.dataset = []; self.dataset_type =
   self.loadDataset(dataset_file). *)
LoadDataset ==
    /\ pc = "load"
    /\ \E r \in {loadDataset(file, dataset_file)} :
          /\ dataset' = r.dataset
          /\ dataset_type' = r.type
          /\ pc' = IF r.error = "none" THEN "call" ELSE r.error
    /\ UNCHANGED <<part, c, turn, human, computer, last, msg, c_in, ret, scores,
                   via, free, dataset_file, file>>

LoadNext == LoadDataset \/ CallFindBestMove \/ CallGetMLMove

SpecLoad == LoadInit /\ [][LoadNext]_vars

----------------------------------------------------------------------------
(* Runs of the board encoding: getBoardState or indexToRowCol called once,
   or the loop's write self.board.c[row][col] = self.turn into an empty
   cell, on an arbitrary board. *)

VectorInit ==
    /\ part = "C"
    /\ c \in AllBoards
    /\ turn \in Marks
    /\ human = "X" /\ computer = "O"
    /\ pc = "call"
    /\ last = "none" /\ msg = ""
    /\ c_in = c /\ ret = NoMove /\ scores = <<>> /\ via = "none"
    /\ free = 0
    /\ dataset = <<>> /\ dataset_type = "single"
    /\ NoFile

CallGetBoardState ==
    /\ pc = "call"
    /\ ret' = getBoardState(c)
    /\ pc' = "getBoardState"
    /\ UNCHANGED <<part, c, turn, human, computer, last, msg, c_in, scores, via, free, mlVars>>

(* indexToRowCol(index): ret holds the index and the pair returned. *)
CallIndexToRowCol ==
    /\ pc = "call"
    /\ \E index \in 0..8 :
          ret' = [index |-> index, cell |-> indexToRowCol(index)]
    /\ pc' = "indexToRowCol"
    /\ UNCHANGED <<part, c, turn, human, computer, last, msg, c_in, scores, via, free, mlVars>>

(* self.board.c[row][col] = self.turn, for an entry validateEntry accepts:
   ret holds (row, col) and c_in the board before the write. *)
PlaceMark ==
    /\ pc = "call"
    /\ \E row \in Idx, col \in Idx :
          /\ validateEntry(c, row, col)
          /\ c' = SetCell(c, row, col, turn)
          /\ ret' = <<row, col>>
    /\ c_in' = c
    /\ pc' = "place"
    /\ UNCHANGED <<part, turn, human, computer, last, msg, scores, via, free, mlVars>>

VectorNext == CallGetBoardState \/ CallIndexToRowCol \/ PlaceMark

SpecVector == VectorInit /\ [][VectorNext]_vars

----------------------------------------------------------------------------
(* playGame of all three parts.  Part C's Game.__init__ builds the MLPlayer
   from the dataset file before the loop starts; on the computer's turn the
   loop calls getMLMove. *)

(* The dataset files of the games, by name: a missing file, and a file of
   two records with a blank and a short line, read as 'single' and as
   'final'. *)
TwoRecordFile ==
    [exists |-> TRUE, lines |->
        << <<"0", "0", "0", "0", "0", "1", "0", "0", "0", "2">>,
           <<>>,
           <<"1", "-1", "0", "0", "0", "0", "0", "0", "0">>,
           <<"1", "-1", "0", "0", "0", "0", "0", "0", "0", "4">> >>]

GameFiles ==
    { [name |-> <<"s", "i", "n", "g", "l", "e">>,
       file |-> [exists |-> FALSE, lines |-> <<>>]],
      [name |-> <<"s", "i", "n", "g", "l", "e">>, file |-> TwoRecordFile],
      [name |-> <<"f", "i", "n", "a", "l">>, file |-> TwoRecordFile] }

InitC ==
    /\ part = "C"
    /\ c = NewBoard
    /\ turn = "X"
    /\ human \in Marks
    /\ computer = (IF human = "X" THEN "O" ELSE "X")
    /\ pc = "turn"
    /\ last = "none"
    /\ msg = ""
    /\ c_in = NewBoard
    /\ ret = NoMove
    /\ scores = <<>>
    /\ free = 0
    /\ via = "none"
    /\ \E g \in GameFiles : dataset_file = g.name /\ file = g.file
    /\ dataset = loadDataset(file, dataset_file).dataset
    /\ dataset_type = loadDataset(file, dataset_file).type

(* Part C: row, col = self.getMLMove(); self.board.c[row][col] = self.turn *)
MLMove ==
    /\ pc = "turn" /\ part = "C" /\ turn # human
    /\ \E o \in getMLMove(c, dataset, dataset_type) :
          /\ ret' = o.move /\ via' = o.via
          /\ IF o.via = "IndexError"
             THEN c' = o.c /\ pc' = "IndexError"
             ELSE c' = SetCell(o.c, o.move[1], o.move[2], turn) /\ pc' = "check"
    /\ c_in' = c
    /\ UNCHANGED <<part, turn, human, computer, last, msg, scores, free, mlVars>>

GameInit == Init \/ InitC

GameNext == Next \/ MLMove

SpecGame == GameInit /\ [][GameNext]_vars

----------------------------------------------------------------------------
(* Self-play: after `free` freely chosen legal plies, every ply is the move
   getBestMove() returns with the mover as the maximizer (self.computer is
   the mover's mark, self.human the other mark). *)

SelfInit ==
    /\ part = "B"
    /\ c = NewBoard
    /\ turn = "X"
    /\ human = "O" /\ computer = "X"
    /\ pc = "turn"
    /\ last = "none" /\ msg = ""
    /\ c_in = NewBoard /\ ret = NoMove /\ scores = <<>> /\ via = "none"
    /\ free \in 0..MaxFree
    /\ dataset = <<>> /\ dataset_type = "single"
    /\ NoFile

FreePly ==
    /\ pc = "turn" /\ 9 - NumEmpty(c) < free
    /\ \E row \in Idx, col \in Idx :
          /\ validateEntry(c, row, col)
          /\ c' = SetCell(c, row, col, turn)
    /\ pc' = "check"
    /\ UNCHANGED <<part, turn, human, computer, last, msg, free, engineVars, mlVars>>

EnginePly ==
    /\ pc = "turn" /\ 9 - NumEmpty(c) >= free
    /\ computer' = turn
    /\ human' = switchPlayer(turn)
    /\ \E r \in {getBestMove(c, switchPlayer(turn), turn)} :
          /\ ret' = r.move
          /\ IF r.move = NoMove
             THEN c' = r.c /\ pc' = "TypeError"
             ELSE c' = SetCell(r.c, r.move[1], r.move[2], turn) /\ pc' = "check"
    /\ c_in' = c
    /\ UNCHANGED <<part, turn, last, msg, scores, free, via, mlVars>>

SelfNext == FreePly \/ EnginePly \/ CheckEndStep

SpecSelfPlay == SelfInit /\ [][SelfNext]_vars

(* playGame's while loop: control leaves the statement it is at.  With both
   marks played by engines no statement of the loop waits for anything, so
   while the game is at a move or at the end test, it goes on. *)
Proceed ==
    /\ pc \in {"turn", "check"}
    /\ pc' \in {"turn", "check", "done", "TypeError"}
    /\ pc' # pc

SpecSelfPlayFair == SpecSelfPlay /\ WF_pc(Proceed)

(* playGame of Parts A, B and C with a human who eventually types an entry
   validateEntry accepts: control leaves a move request, and the end test. *)
SpecGameFair == SpecGame /\ WF_pc(Proceed)

----------------------------------------------------------------------------
(* Properties of playGame *)

(* Whether some line of board b is filled with mark v. *)
LineSet ==
    { {<<0,0>>, <<0,1>>, <<0,2>>}, {<<1,0>>, <<1,1>>, <<1,2>>}, {<<2,0>>, <<2,1>>, <<2,2>>},
      {<<0,0>>, <<1,0>>, <<2,0>>}, {<<0,1>>, <<1,1>>, <<2,1>>}, {<<0,2>>, <<1,2>>, <<2,2>>},
      {<<0,0>>, <<1,1>>, <<2,2>>}, {<<0,2>>, <<1,1>>, <<2,0>>} }

Owns(b, v) == \E line \in LineSet : \A m \in line : b[m[1]][m[2]] = v

(* C1: in a Part B game from the empty board, with the computer playing
   getBestMove() and the human any legal cell, for either assignment of
   marks, no reachable board has a complete line of the human's mark
   (getWinner() is never the human's mark). *)
C1_MinimaxNeverLoses ==
    part = "B" => (getWinner(c) # human /\ ~Owns(c, human))

C1_Witness ==
    /\ part = "B" /\ pc = "done"
    /\ getWinner(c) = computer
    /\ msg = "Player " \o computer \o " wins!"

CentreOpening == SetCell(NewBoard, 1, 1, "X")
Corners == {<<0, 0>>, <<0, 2>>, <<2, 0>>, <<2, 2>>}

(* C10: from the empty board, after human X plays (1,1), getBestMove() for
   computer O returns one of the four corners, never an edge cell. *)
C10_CentreReplyIsCorner ==
    (part = "B" /\ human = "X" /\ c_in = CentreOpening) => ret \in Corners

C10_Witness ==
    /\ part = "B" /\ human = "X" /\ c_in = CentreOpening /\ pc = "check"
    /\ ret \in Corners
    /\ c = SetCell(CentreOpening, ret[1], ret[2], "O")

----------------------------------------------------------------------------
(* Properties of self-play *)

HasLine(b) == \E v \in Marks : Owns(b, v)

(* C2: when both marks are played by getBestMove(), each with itself as
   the maximizer, from the empty board, the game ends, and it ends with a
   full board and no complete line (a draw). *)
C2_SelfPlayEndsInDraw ==
    (free = 0) =>
        <>(pc = "done" /\ NumEmpty(c) = 0 /\ ~HasLine(c) /\ msg = "DRAW! NOBODY WINS!")

C2_Witness ==
    /\ free = 0 /\ pc = "done"
    /\ NumEmpty(c) = 0 /\ ~HasLine(c)
    /\ msg = "DRAW! NOBODY WINS!"

----------------------------------------------------------------------------
(* Properties of the terminal evaluator *)

(* The 8 lines in the order of the claim: rows 0..2, columns 0..2, main
   diagonal, anti-diagonal. *)
Lines ==
    << <<(<<0,0>>), (<<0,1>>), (<<0,2>>)>>,
       <<(<<1,0>>), (<<1,1>>), (<<1,2>>)>>,
       <<(<<2,0>>), (<<2,1>>), (<<2,2>>)>>,
       <<(<<0,0>>), (<<1,0>>), (<<2,0>>)>>,
       <<(<<0,1>>), (<<1,1>>), (<<2,1>>)>>,
       <<(<<0,2>>), (<<1,2>>), (<<2,2>>)>>,
       <<(<<0,0>>), (<<1,1>>), (<<2,2>>)>>,
       <<(<<0,2>>), (<<1,1>>), (<<2,0>>)>> >>

At(b, m) == b[m[1]][m[2]]

Complete(b, k) ==
    /\ At(b, Lines[k][1]) # EMPTY
    /\ At(b, Lines[k][1]) = At(b, Lines[k][2])
    /\ At(b, Lines[k][2]) = At(b, Lines[k][3])

FirstLineMark(b) ==
    IF \E k \in 1..8 : Complete(b, k)
    THEN At(b, Lines[CHOOSE k \in 1..8 :
                        Complete(b, k) /\ \A j \in 1..(k - 1) : ~Complete(b, j)][1])
    ELSE None

(* C6: for every assignment of the 9 cells, getWinner() returns the mark of
   the first complete line in the order rows, columns, main diagonal,
   anti-diagonal, and None when no line is complete; checkWin() is True
   exactly when getWinner() is not None. *)
C6_GetWinnerFirstLine ==
    /\ pc = "getWinner" => ret = FirstLineMark(c)
    /\ pc = "checkWin" => (ret <=> getWinner(c) # None)

C6_Witness ==
    /\ pc = "getWinner"
    /\ Complete(c, 2) /\ Complete(c, 3) /\ ~Complete(c, 1)
    /\ At(c, <<1, 0>>) = "O" /\ At(c, <<2, 0>>) = "X"
    /\ ret = "O"

(* C7: checkEnd() reports a win whenever a complete line exists, a draw
   only when no line is complete and no cell is empty, and otherwise that
   the game goes on; a full board with a complete line is a win. *)
C7_StatusOrdering ==
    pc = "checkEnd" =>
        /\ HasLine(c) => (ret = TRUE /\ msg = "Player " \o turn \o " wins!")
        /\ msg = "DRAW! NOBODY WINS!" => (~HasLine(c) /\ NumEmpty(c) = 0)
        /\ (~HasLine(c) /\ NumEmpty(c) = 0) => (ret = TRUE /\ msg = "DRAW! NOBODY WINS!")
        /\ (~HasLine(c) /\ NumEmpty(c) > 0) => (ret = FALSE /\ msg = "")

C7_Witness ==
    /\ pc = "checkEnd"
    /\ HasLine(c) /\ NumEmpty(c) = 0
    /\ ret = TRUE /\ msg = "Player " \o turn \o " wins!"

----------------------------------------------------------------------------
(* Properties of the engines *)

(* C3: when getBestMove(), minimax(depth, is_maximizing) or getMLMove()
   returns, all 9 cells equal their values at the entry of the call.  Every
   recursive call of minimax is a call on some board, so the boards of the
   engine runs cover them. *)
C3_EnginesLeaveBoardUnchanged ==
    pc \in {"getBestMove", "minimax", "getMLMove"} => c = c_in

C3_Witness ==
    /\ pc = "minimax"
    /\ ~HasLine(c_in) /\ NumEmpty(c_in) >= 3
    /\ c = c_in

AvailableCells(b) == {m \in Idx \X Idx : b[m[1]][m[2]] = EMPTY}

(* C4: for every board with an empty cell and every dataset, getMLMove()
   returns an in-range empty cell; an index that was looked up is used only
   if it is an available move, otherwise the move is one of the available
   moves. *)
C4_MLMoveIsAvailable ==
    (pc \in {"getMLMove", "IndexError"} /\ NumEmpty(c_in) >= 1) =>
        /\ pc = "getMLMove"
        /\ ret \in AvailableCells(c_in)
        /\ via \in {"ML", "random"}
        /\ via = "ML" =>
              /\ <<3 * ret[1] + ret[2]>> \in findBestMove(dataset, dataset_type, getBoardState(c_in))
              /\ 3 * ret[1] + ret[2] \in SeqToSet(getAvailableIndices(c_in))

(* A record matches the board and its label is not an available move: the
   move comes from the random fallback. *)
C4_Witness ==
    /\ pc = "getMLMove" /\ dataset_type = "single" /\ via = "random"
    /\ \E n \in 1..Len(dataset) :
          /\ dataset[n].state = getBoardState(c_in)
          /\ <<dataset[n].label>> \in findBestMove(dataset, dataset_type, getBoardState(c_in))
          /\ dataset[n].label \in {0, 9}
    /\ ret \in AvailableCells(c_in)

(* C5: for every board with an empty cell, getBestMove() returns a
   (row, col) pair, never None, and the pair is a member of
   getAvailableMoves(): an in-range empty cell. *)
C5_BestMoveIsAvailable ==
    (pc = "getBestMove" /\ NumEmpty(c_in) >= 1) =>
        /\ ret # NoMove
        /\ ret \in SeqToSet(getAvailableMoves(c_in))
        /\ ret \in AvailableCells(c_in)

C5_Witness ==
    /\ pc = "getBestMove" /\ NumEmpty(c_in) >= 2
    /\ ret \in AvailableCells(c_in)
    /\ ret # getAvailableMoves(c_in)[1]

WinsAt(b, m, v) == Owns(SetCell(b, m[1], m[2], v), v)

(* C8: for every board with no winner where some empty cell completes a
   line for the computer, getBestMove() returns a cell that completes a
   computer line at once. *)
C8_ImmediateWinPreferred ==
    (/\ pc = "getBestMove"
     /\ ~HasLine(c_in)
     /\ \E m \in AvailableCells(c_in) : WinsAt(c_in, m, computer)) =>
        (ret \in AvailableCells(c_in) /\ WinsAt(c_in, ret, computer))

(* An earlier move, in row-major order, forces a win later (a score
   between 1 and 9) and the move returned wins at once. *)
C8_Witness ==
    /\ pc = "getBestMove" /\ ~HasLine(c_in)
    /\ ret \in AvailableCells(c_in) /\ WinsAt(c_in, ret, computer)
    /\ \E i \in 1..Len(scores) :
          /\ scores[i] > 0 /\ scores[i] < 10
          /\ ~WinsAt(c_in, getAvailableMoves(c_in)[i], computer)
          /\ \E j \in (i + 1)..Len(scores) : getAvailableMoves(c_in)[j] = ret

(* C9: getBestMove() returns the move whose score minimax(0, False) is
   maximal over the available moves, and among the moves of that score the
   first in row-major order.  scores[i] is the score minimax(0, False)
   returned for the i-th available move. *)
C9_FirstMaximalMove ==
    (pc = "getBestMove" /\ NumEmpty(c_in) >= 1) =>
        /\ Len(scores) = Len(getAvailableMoves(c_in))
        /\ \E i \in 1..Len(scores) :
              /\ ret = getAvailableMoves(c_in)[i]
              /\ \A j \in 1..Len(scores) : scores[j] <= scores[i]
              /\ \A j \in 1..(i - 1) : scores[j] < scores[i]

C9_Witness ==
    /\ pc = "getBestMove" /\ ~HasLine(c_in)
    /\ \E i \in 1..Len(scores) :
          /\ ret = getAvailableMoves(c_in)[i]
          /\ i > 1
          /\ \E j \in (i + 1)..Len(scores) : scores[j] = scores[i]

----------------------------------------------------------------------------
(* Properties of the dataset lookup *)

(* The positions of the records of ds whose state equals q in all 9
   components. *)
MatchingRecords(ds, q) ==
    {n \in 1..Len(ds) : \A i \in 1..9 : ds[n].state[i] = q[i]}

Least(S) == CHOOSE x \in S : \A y \in S : x <= y

(* C11: for a 'single' dataset findBestMove(state) returns the label of the
   first record, in dataset order, whose state equals the query in every
   position, and None when no record equals the query. *)
C11_ExactMatchLookup ==
    (pc = "findBestMove" /\ dataset_type = "single") =>
        IF MatchingRecords(dataset, getBoardState(c)) = {}
        THEN ret = <<>>
        ELSE ret = <<dataset[Least(MatchingRecords(dataset, getBoardState(c)))].label>>

(* Two records match the query with different labels, a record that does
   not match comes first, and the label of the first match is returned. *)
C11_Witness ==
    /\ pc = "findBestMove" /\ dataset_type = "single"
    /\ c = OpeningBoard
    /\ Len(dataset) >= 3
    /\ dataset[1].state # OpeningState
    /\ dataset[2] = [state |-> OpeningState, label |-> 4]
    /\ dataset[3] = [state |-> OpeningState, label |-> 2]
    /\ ret = <<4>>

(* The aggregated candidate list of the query of the last lookup. *)
CandidateList == findSimilarBoardMoves(dataset, getBoardState(c), K)

(* The element of maximal count that appears earliest in the list. *)
FirstSeenMostFrequent(list) ==
    list[Least({i \in 1..Len(list) :
                  \A j \in 1..Len(list) : Count(list, list[j]) <= Count(list, list[i])})]

(* C12 as claimed: for a 'final' dataset findBestMove(state) returns the
   candidate of maximal frequency that appears earliest in the aggregated
   candidate list, and None when the list is empty. *)
C12_FirstSeenTieBreak ==
    (pc = "findBestMove" /\ dataset_type = "final") =>
        \A list \in {CandidateList} :
            IF list = <<>>
            THEN ret = <<>>
            ELSE ret = <<FirstSeenMostFrequent(list)>>

(* C12 as amended: for a 'final' dataset findBestMove(state) returns a
   candidate whose frequency in the aggregated candidate list is maximal
   (not always the earliest such candidate of the list), and None when the
   list is empty. *)
C12_MostFrequentCandidate ==
    (pc = "findBestMove" /\ dataset_type = "final") =>
        \A list \in {CandidateList} :
            IF list = <<>>
            THEN ret = <<>>
            ELSE /\ ret # <<>>
                 /\ \E i \in 1..Len(list) : list[i] = ret[1]
                 /\ \A j \in 1..Len(list) : Count(list, list[j]) <= Count(list, ret[1])

(* The candidates 0 and 1 occur twice and 5, which comes first, once: a
   candidate of maximal frequency that is not the first of the list is
   returned. *)
C12_Witness ==
    /\ pc = "findBestMove" /\ dataset_type = "final"
    /\ c = NewBoard
    /\ CandidateList = <<5, 0, 1, 0, 1>>
    /\ ret = <<0>>

(* The number of the 9 positions where query q and state st agree. *)
Agree(q, st) == Cardinality({i \in 1..9 : q[i] = st[i]})

(* The agreement of each record of ds with q. *)
Agreements(ds, q) == [n \in 1..Len(ds) |-> Agree(q, ds[n].state)]

(* The number of records that come before record n when the records are
   ordered by their agreement ag, descending, records of equal agreement in
   dataset order. *)
Rank(ag, n) ==
    Cardinality({m \in DOMAIN ag : ag[m] > ag[n] \/ (ag[m] = ag[n] /\ m < n)})

RecordAtRank(ds, ag, r) == ds[CHOOSE n \in DOMAIN ag : Rank(ag, n) = r]

(* The positions 0..8 where the query is 0 and the record is not. *)
OpenPositions(q, st) == {i \in 0..8 : q[i + 1] = 0 /\ st[i + 1] # 0}

RECURSIVE Ascending(_)
Ascending(S) == IF S = {} THEN <<>> ELSE <<Least(S)>> \o Ascending(S \ {Least(S)})

RECURSIVE ExpectedMoves(_, _, _, _)
(* The open positions of the records of rank r, r + 1, ... below
   min(5, dataset size), record by record. *)
ExpectedMoves(ds, q, ag, r) ==
    IF r >= Len(ds) \/ r >= 5 THEN <<>>
    ELSE Ascending(OpenPositions(q, RecordAtRank(ds, ag, r).state))
         \o ExpectedMoves(ds, q, ag, r + 1)

(* C13: findSimilarBoardMoves(state, k=5) scores each record by the number
   of positions where it agrees with the query, orders the records by that
   score descending, keeping dataset order among equal scores, takes the
   first min(5, dataset size) records, and returns, in that record order
   and in ascending position order within a record, every position where
   the query is 0 and the record is not. *)
C13_TopKNeighbours ==
    pc = "findSimilarBoardMoves" =>
        \A q \in {getBoardState(c)} :
            \A ag \in {Agreements(dataset, q)} : ret = ExpectedMoves(dataset, q, ag, 0)

(* Six records: the first of the dataset agrees least with the query and is
   the one left out; the five others give one candidate each. *)
C13_Witness ==
    /\ pc = "findSimilarBoardMoves"
    /\ c = NewBoard
    /\ Len(dataset) = 6
    /\ dataset[1].state = OpeningState
    /\ \A n \in 2..6 : dataset[n].state # OpeningState
    /\ ret = <<5, 5, 5, 5, 5>>

----------------------------------------------------------------------------
(* Properties of loading the dataset *)

(* A line of exactly 10 tokens, each an integer; and the record it holds. *)
WellFormed(line) == Len(line) = 10 /\ \A i \in 1..10 : IsInteger(line[i])
RecordOf(line) ==
    [state |-> [i \in 1..9 |-> ToInt(line[i])], label |-> ToInt(line[10])]
WellFormedLines(lines) == SelectSeq(lines, WellFormed)
RecordsOf(lines) ==
    [i \in 1..Len(WellFormedLines(lines)) |-> RecordOf(WellFormedLines(lines)[i])]

(* C14: a line whose token count is not 10, or that holds a non-integer
   token, is skipped: once an existing file has been read no error has
   escaped loadDataset and the dataset holds the records of all the
   well-formed lines of the file, in order. *)
C14_MalformedLinesSkipped ==
    (pc # "load" /\ file.exists) =>
        /\ pc # "ValueError"
        /\ dataset = RecordsOf(file.lines)

(* The file is missing or none of its lines is a record. *)
NoRecords(f) == ~f.exists \/ RecordsOf(f.lines) = <<>>

(* C15: when the file is missing or holds no record, loading raises no error,
   the dataset is empty, the type is 'single' whatever the file name,
   findBestMove returns None and getMLMove takes the random fallback. *)
C15_EmptyDegradesToRandom ==
    (pc # "load" /\ NoRecords(file)) =>
        /\ pc # "ValueError"
        /\ dataset = <<>>
        /\ dataset_type = "single"
        /\ (pc = "findBestMove" => ret = <<>>)
        /\ (pc = "getMLMove" => via = "random")

----------------------------------------------------------------------------
(* Properties of the game loop of Parts A, B and C *)

InRange(row, col) == row \in Idx /\ col \in Idx

(* The step of the game loop asked for a move and asks the same player
   again: the entry was refused. *)
AskedAgain == pc = "turn" /\ pc' = "turn"

(* C16: an entry whose row or column is outside 0..2, or whose cell is not
   empty, is refused by validateEntry; a refused entry leaves every cell and
   the turn unchanged and the same player is asked again; and a mark is
   written only into a cell that was empty and in range. *)
C16_InvalidEntryRejected ==
    [][ /\ \A row \in Inputs, col \in Inputs :
              (~InRange(row, col) \/ c[row][col] # EMPTY)
                  => ~validateEntry(c, row, col)
        /\ AskedAgain => (c' = c /\ turn' = turn)
        /\ \A i \in Idx, j \in Idx :
              c'[i][j] # c[i][j] => (c[i][j] = EMPTY /\ c'[i][j] = turn)
        /\ DOMAIN c' = Idx /\ \A i \in Idx : DOMAIN c'[i] = Idx
      ]_vars

(* An entry was refused in a Part C game with marks on the board. *)
C16_Witness ==
    /\ part = "C" /\ pc = "turn" /\ last = "rejected"
    /\ NumEmpty(c) = 6

Marked(b) == 9 - NumEmpty(b)

(* C17: when a move is requested the number of X marks minus the number of
   O marks is 0 if the turn is X and 1 if the turn is O, X moves on even
   counts of marked cells and O on odd counts, and no marked cell is ever
   overwritten or cleared. *)
C17_TurnAlternation ==
    /\ [](pc = "turn" =>
            /\ turn = "X" => NumOf(c, "X") - NumOf(c, "O") = 0
            /\ turn = "O" => NumOf(c, "X") - NumOf(c, "O") = 1
            /\ turn = "X" <=> Marked(c) % 2 = 0
            /\ turn = "O" <=> Marked(c) % 2 = 1)
    /\ [][\A i \in Idx, j \in Idx : c[i][j] # EMPTY => c'[i][j] = c[i][j]]_vars

(* O is asked for its fourth mark in a Part C game. *)
C17_Witness ==
    /\ part = "C" /\ pc = "turn" /\ turn = "O"
    /\ NumOf(c, "X") = 4 /\ NumOf(c, "O") = 3

(* C19: no board reached by playGame from the empty board has a complete
   line of X together with a complete line of O. *)
C19_NoDoubleWinner == ~(Owns(c, "X") /\ Owns(c, "O"))

(* A full board on which X has two complete lines and O none. *)
C19_Witness ==
    /\ pc = "done" /\ NumEmpty(c) = 0
    /\ Cardinality({line \in LineSet : \A m \in line : c[m[1]][m[2]] = "X"}) = 2
    /\ ~Owns(c, "O")

(* The game is over on board b: a complete line, or no empty cell. *)
GameOver(b) == HasLine(b) \/ NumEmpty(b) = 0

(* C18: with a human who eventually types a valid entry on each turn, every
   game from the empty board ends, won or drawn, with at most 9 marks
   placed; a move is requested only while the game is not over, so the loop
   stops at the first such state; and no mark is placed once it is over. *)
C18_GameTerminates ==
    /\ <>(pc = "done" /\ GameOver(c) /\ Marked(c) <= 9)
    /\ [](pc = "turn" => ~GameOver(c))
    /\ [](GameOver(c) => pc \in {"check", "done"})
    /\ [][GameOver(c) => c' = c]_vars
    /\ [][pc = "done" => pc' = "done"]_vars

(* A Part C game that ended with a win on the ninth mark. *)
C18_Witness ==
    /\ part = "C" /\ pc = "done"
    /\ Marked(c) = 9 /\ HasLine(c)

----------------------------------------------------------------------------
(* Properties of the board encoding *)

ValueOf(v) == IF v = "X" THEN 1 ELSE IF v = "O" THEN 0 - 1 ELSE 0

(* C20: getBoardState() is 9 integers, the one of cell (row, col) at index
   row*3+col (element row*3+col+1 here), +1 for X, -1 for O and 0 for empty;
   writing a mark into an empty cell (row, col) changes the component at
   index row*3+col, to +1 for X and -1 for O, and no other component; and
   indexToRowCol(row*3+col) is (row, col) for every cell. *)
C20_VectorEncoding ==
    /\ pc = "getBoardState" =>
          /\ Len(ret) = 9
          /\ \A row \in Idx, col \in Idx :
                ret[row * 3 + col + 1] = ValueOf(c[row][col])
    /\ pc = "place" =>
          \A before \in {getBoardState(c_in)}, after \in {getBoardState(c)} :
              /\ before[ret[1] * 3 + ret[2] + 1] = 0
              /\ after[ret[1] * 3 + ret[2] + 1] = (IF turn = "X" THEN 1 ELSE 0 - 1)
              /\ \A k \in 1..9 :
                    k # ret[1] * 3 + ret[2] + 1 => after[k] = before[k]
    /\ pc = "indexToRowCol" =>
          \A row \in Idx, col \in Idx :
              ret.index = row * 3 + col => ret.cell = <<row, col>>

(* O was written into cell (1, 2) of a board with marks of both players. *)
C20_Witness ==
    /\ pc = "place" /\ turn = "O" /\ ret = <<1, 2>>
    /\ NumOf(c_in, "X") = 2 /\ NumOf(c_in, "O") = 1
    /\ getBoardState(c)[6] = 0 - 1 /\ getBoardState(c_in)[6] = 0

----------------------------------------------------------------------------
(* Properties of the minimax recursion *)

Largest(S) == CHOOSE x \in S : \A y \in S : y <= x
Smallest(S) == CHOOSE x \in S : \A y \in S : x <= y

RECURSIVE OwnerScore(_, _, _, _, _)
(* The recursion with the terminal test "the computer owns a complete line,
   else the human does", the wins before the full board. *)
OwnerScore(b, h, cm, depth, is_maximizing) ==
    IF Owns(b, cm) THEN 10 - depth
    ELSE IF Owns(b, h) THEN depth - 10
    ELSE IF NumEmpty(b) = 0 THEN 0
    ELSE IF is_maximizing
         THEN Largest({OwnerScore(SetCell(b, m[1], m[2], cm), h, cm, depth + 1, FALSE) :
                           m \in AvailableCells(b)})
         ELSE Smallest({OwnerScore(SetCell(b, m[1], m[2], h), h, cm, depth + 1, TRUE) :
                            m \in AvailableCells(b)})

RECURSIVE FirstLineScore(_, _, _, _, _)
(* The recursion with the terminal test on the mark of the first complete
   line, in the order rows, columns, main diagonal, anti-diagonal. *)
FirstLineScore(b, h, cm, depth, is_maximizing) ==
    IF FirstLineMark(b) = cm THEN 10 - depth
    ELSE IF FirstLineMark(b) = h THEN depth - 10
    ELSE IF NumEmpty(b) = 0 THEN 0
    ELSE IF is_maximizing
         THEN Largest({FirstLineScore(SetCell(b, m[1], m[2], cm), h, cm, depth + 1, FALSE) :
                           m \in AvailableCells(b)})
         ELSE Smallest({FirstLineScore(SetCell(b, m[1], m[2], h), h, cm, depth + 1, TRUE) :
                            m \in AvailableCells(b)})

(* C21 as claimed: for every board, depth and flag, minimax returns
   10 - depth if the computer owns a complete line, else depth - 10 if the
   human does, else 0 if the board is full, else the maximum (computer to
   place) or the minimum (human to place) of minimax(depth + 1, flipped
   flag) over the empty cells. *)
C21_OwnerRecursion ==
    pc = "minimax" =>
        \A s \in {OwnerScore(c_in, human, computer, ret[1], ret[2])} : ret[3] = s

(* C21 as amended: the same recursion, where the terminal test is on the
   mark getWinner() reports, the mark of the first complete line in the
   order rows, columns, main diagonal, anti-diagonal; a full board with a
   complete line never scores 0. *)
C21_FirstLineRecursion ==
    pc = "minimax" =>
        /\ \A s \in {FirstLineScore(c_in, human, computer, ret[1], ret[2])} : ret[3] = s
        /\ (NumEmpty(c_in) = 0 /\ HasLine(c_in)) => ret[3] # 0

(* minimax(1, True) on a board with no line and 3 empty cells returned a
   computer win forced at the third mark placed, scored at depth 4. *)
C21_Witness ==
    /\ pc = "minimax" /\ ~HasLine(c_in) /\ NumEmpty(c_in) = 3
    /\ ret = <<1, TRUE, 10 - 4>>
    /\ \A m \in AvailableCells(c_in) : ~WinsAt(c_in, m, computer)

----------------------------------------------------------------------------
(* Properties of the game loop and its engines *)

(* Board b has an empty cell and no complete line. *)
Playable(b) == NumEmpty(b) >= 1 /\ ~HasLine(b)

(* C22: in playGame of Parts B and C every call of getBestMove() or
   getMLMove() is on a board with an empty cell and no complete line: the
   board on which the computer is about to move, and the board at the entry
   of the last call; getBestMove() never returns None to the loop (no
   TypeError) and the random fallback never chooses from an empty list (no
   IndexError). *)
C22_EnginesOnPlayableBoards ==
    part \in {"B", "C"} =>
        /\ (pc = "turn" /\ turn = computer) => Playable(c)
        /\ Playable(c_in)
        /\ pc \notin {"TypeError", "IndexError"}
        /\ via # "IndexError"

(* getMLMove() was called in a Part C game on a board with a single empty
   cell and no complete line, and its move was placed. *)
C22_Witness ==
    /\ part = "C" /\ pc = "check"
    /\ NumEmpty(c_in) = 1 /\ ~HasLine(c_in)
    /\ via \in {"ML", "random"} /\ c = SetCell(c_in, ret[1], ret[2], computer)

Wins(v) == "Player " \o v \o " wins!"

(* C23: whenever checkEnd() has reported a win, the mark it announced, the
   turn at that moment (the player who moved last), is the mark that fills
   a complete line of the board, and the other mark fills none; and a game
   that ended on a board with a complete line announced its owner. *)
C23_AnnouncedWinnerOwnsLine ==
    /\ \A v \in Marks :
          msg = Wins(v) =>
              /\ pc = "done" /\ turn = v
              /\ Owns(c, v) /\ ~Owns(c, switchPlayer(v))
    /\ (pc = "done" /\ HasLine(c)) => \E v \in Marks : msg = Wins(v) /\ Owns(c, v)

(* O was announced as the winner of a Part A game. *)
C23_Witness ==
    /\ part = "A" /\ pc = "done"
    /\ msg = Wins("O") /\ Owns(c, "O")

(* The empty cells of b that complete a line of v. *)
Threats(b, v) == {m \in AvailableCells(b) : WinsAt(b, m, v)}

(* C24: for every board with no winner where no empty cell completes a
   line for the computer and exactly one empty cell completes a line for
   the human, getBestMove() returns that cell. *)
C24_BlocksSingleThreat ==
    (/\ pc = "getBestMove"
     /\ ~HasLine(c_in)
     /\ Threats(c_in, computer) = {}
     /\ Cardinality(Threats(c_in, human)) = 1) =>
        ret \in Threats(c_in, human)

(* The blocking cell is not the first empty cell, 4 cells are empty and a
   move before it in row-major order got the score of an immediate loss. *)
C24_Witness ==
    /\ pc = "getBestMove" /\ ~HasLine(c_in) /\ NumEmpty(c_in) = 4
    /\ Threats(c_in, computer) = {}
    /\ Cardinality(Threats(c_in, human)) = 1
    /\ ret \in Threats(c_in, human)
    /\ ret # getAvailableMoves(c_in)[1]
    /\ scores[1] = 0 - 9

(* C25: for a 'final' dataset every non-None value findBestMove(state)
   returns is an index i in 0..8 with state[i] = 0; with the board's own
   vector as the query it is a member of getAvailableMoves(), so getMLMove()
   uses it, and the random fallback is taken only when the candidate list
   is empty. *)
C25_FinalResultIsEmptyCell ==
    (pc = "getMLMove" /\ dataset_type = "final") =>
        \A q \in {getBoardState(c_in)} :
            /\ \A f \in findBestMove(dataset, dataset_type, q) :
                  f # <<>> =>
                      /\ f[1] \in 0..8
                      /\ q[f[1] + 1] = 0
                      /\ f[1] \in SeqToSet(getAvailableIndices(c_in))
            /\ via = "random" <=> findSimilarBoardMoves(dataset, q, K) = <<>>
            /\ via = "ML" => ret \in AvailableCells(c_in)

(* The board holds a mark where the nearest record holds one too, the
   record has marks on cells that are empty on the board, and the move used
   is one of those cells. *)
C25_Witness ==
    /\ pc = "getMLMove" /\ dataset_type = "final" /\ via = "ML"
    /\ Len(dataset) = 2 /\ dataset[1].state = FinalState
    /\ c_in[0][0] = "X" /\ c_in[1][1] = "X"
    /\ ret = <<0, 1>>

============================================================================
